---- MODULE Spec2Model ----
(***************************************************************************)
(* MultiConvert Pro: the document conversion router                        *)
(* (DocumentConverter.convert and its three engines), the job queue        *)
(* (MainConverter) and the worker thread / window handlers that drive it.  *)
(*                                                                         *)
(* Progress percentages handed to a progress callback are kept in          *)
(* hundredths of a percent (ProgressScale), because the router computes    *)
(* current_progress + p * progress_step / 100 in floating point and the    *)
(* result need not be a whole number (20 + 10 * 26 / 100 = 22.6).          *)
(***************************************************************************)
EXTENDS Integers, Sequences, FiniteSets, TLC

VARIABLES
    file_list,          \* MainWindow.file_list: the paths shown in the list widget
    format_text,        \* MainWindow.output_format_combo.currentText()
    output_dir,         \* destination folder handed to the worker
    lo_executable,      \* LibreOfficeEngine.executable_path is not None
    available_engines,  \* DocumentConverter.__init__: engines available at construction
    jobs,               \* MainConverter.jobs
    jobs_gen,           \* identity of the job objects now in MainConverter.jobs
    current_job_index,  \* MainConverter.current_job_index
    is_converting,      \* MainConverter.is_converting
    pc,                 \* ConversionWorker: position of each worker thread
    should_stop,        \* ConversionWorker.should_stop
    args,               \* ConversionWorker: file_paths, output_dir, target_format
    cur,                \* process_next_job: the worker's current_job reference
    finished,           \* ConversionWorker.conversion_finished signal emitted
    handled,            \* MainWindow.on_conversion_finished has run for the signal
    conversion_worker,  \* MainWindow.conversion_worker (0 is None)
    stop_btn,           \* MainWindow.stop_btn.isEnabled()
    conv                \* DocumentConverter.convert: one call frame per worker

ui_vars     == <<file_list, format_text, output_dir, conversion_worker, stop_btn, handled>>
env_vars    == <<lo_executable, available_engines>>
queue_vars  == <<jobs, jobs_gen, current_job_index, is_converting>>
worker_vars == <<pc, should_stop, args, cur, finished>>
vars == <<ui_vars, env_vars, queue_vars, worker_vars, conv>>

----------------------------------------------------------------------------
(* Bounds of the model *)

MaxFiles == 3
MaxWorkers == 2

\* the worker threads a session may create: Spec creates MaxWorkers of
\* them, SpecThree one more
Workers == 1..(MaxWorkers + 1)

ProgressScale == 100

----------------------------------------------------------------------------
(* Files, extensions, format tokens *)

FileUniverse == <<"a.docx", "c.PDF", "b.txt", "v.mp4">>

Files == {FileUniverse[k] : k \in 1..Len(FileUniverse)}

\* Path(file_path).suffix with the dot stripped, before any lower()
Suffix(f) ==
    CASE f = "a.docx" -> "docx"
      [] f = "c.PDF"  -> "PDF"
      [] f = "b.txt"  -> "txt"
      [] f = "v.mp4"  -> "mp4"
      [] OTHER        -> ""

\* str.lower() on the format tokens of the model
Lower(s) ==
    CASE s = "PDF"  -> "pdf"
      [] s = "DOCX" -> "docx"
      [] s = "TXT"  -> "txt"
      [] s = "HTML" -> "html"
      [] OTHER      -> s

\* target formats a run may ask for: lower-case tokens, and the upper-case
\* text of the format selector
Targets == {"pdf", "txt", "html", "PDF"}

OutputDirs == {"out", "", "unwritable"}

\* the file lists a run is started with: the files in list order, no duplicates
RECURSIVE SubLists(_)
SubLists(n) ==
    IF n = 0 THEN {<< >>}
    ELSE LET shorter == SubLists(n - 1)
         IN  shorter \cup
             {Append(s, f) : s \in shorter, f \in Files}

Position(f) == CHOOSE k \in 1..Len(FileUniverse) : FileUniverse[k] = f

\* lists of at most n files, in the order of FileUniverse
OrderedLists(n) ==
    {s \in SubLists(n) :
        \A a, b \in 1..Len(s) : a < b => Position(s[a]) < Position(s[b])}

\* the lists the window holds: some of the first MaxFiles files
FileLists ==
    {s \in OrderedLists(MaxFiles) :
        /\ Len(s) >= 1
        /\ \A k \in 1..Len(s) : Position(s[k]) <= MaxFiles}

\* os.path.exists(f), when the probe finds the files of `present` on disk
Exists(f, present) == f \in present

\* what a probe of the disk may find: any of the files may have been removed
Probes == SUBSET Files

----------------------------------------------------------------------------
(* Messages: (success, message) results carry a message; the model keeps   *)
(* its kind, the engine it names and how that engine ended.                *)

Msg(kind, engine, cause) == [kind |-> kind, engine |-> engine, cause |-> cause]

NoMsg == Msg("", "", "")

----------------------------------------------------------------------------
(* MainConverter: file types and supported formats *)

VideoInput  == {"mp4", "avi", "mkv", "mov", "wmv", "flv", "webm", "m4v", "3gp", "ogv"}
VideoOutput == {"mp4", "avi", "mkv", "mov", "wmv", "flv", "webm"}
AudioInput  == {"mp3", "wav", "flac", "aac", "ogg", "m4a", "wma", "opus", "aiff", "au"}
AudioOutput == {"mp3", "wav", "flac", "aac", "ogg", "m4a", "opus"}
ImageInput  == {"jpg", "jpeg", "png", "gif", "bmp", "tiff", "tif", "webp", "ico", "ppm", "pgm", "pbm"}
ImageOutput == {"jpg", "jpeg", "png", "gif", "bmp", "tiff", "webp", "ico"}

\* DocumentConverter.supported_formats
DocInput  == {"pdf", "docx", "doc", "odt", "rtf", "txt", "xlsx", "xls", "ods", "pptx", "ppt", "odp"}
DocOutput == {"pdf", "docx", "odt", "rtf", "txt", "xlsx", "ods", "pptx", "odp", "html"}

\* MainConverter.extension_mapping
extension_mapping(ext) ==
    CASE ext \in {"mp4", "avi", "mkv", "mov", "wmv", "flv", "webm", "m4v",
                  "mpg", "mpeg", "3gp", "ogv"} -> "video"
      [] ext \in {"mp3", "wav", "flac", "aac", "ogg", "m4a", "wma", "opus",
                  "aiff", "au", "ra"} -> "audio"
      [] ext \in {"jpg", "jpeg", "png", "gif", "bmp", "tiff", "tif", "webp",
                  "ico", "svg", "psd", "raw"} -> "image"
      [] ext \in {"pdf", "doc", "docx", "odt", "rtf", "txt", "html", "htm",
                  "xls", "xlsx", "ods", "csv", "ppt", "pptx", "odp"} -> "document"
      [] OTHER -> "unknown"

\* MainConverter.detect_file_type: every file of the model has a mapped
\* extension, so the content sniffing of filetype.guess is never reached
detect_file_type(f) == extension_mapping(Lower(Suffix(f)))

\* MainConverter.get_supported_formats
get_supported_formats ==
    [video    |-> [input |-> VideoInput, output |-> VideoOutput],
     audio    |-> [input |-> AudioInput, output |-> AudioOutput],
     image    |-> [input |-> ImageInput, output |-> ImageOutput],
     document |-> [input |-> DocInput,   output |-> DocOutput]]

\* a format check that omits the comparison of the two formats
is_format_supported_any_pair(input_format, output_format) ==
    \E category \in DOMAIN get_supported_formats :
        /\ Lower(input_format) \in get_supported_formats[category].input
        /\ Lower(output_format) \in get_supported_formats[category].output

\* MainConverter.is_format_supported
is_format_supported(input_format, output_format) ==
    IF Lower(input_format) = Lower(output_format) THEN FALSE
    ELSE \E category \in DOMAIN get_supported_formats :
            /\ Lower(input_format) \in get_supported_formats[category].input
            /\ Lower(output_format) \in get_supported_formats[category].output

\* ConversionJob.__init__
ConversionJob(input_path, target_format) ==
    [input_path    |-> input_path,
     target_format |-> target_format,
     status        |-> "pending",
     progress      |-> 0,
     error_message |-> NoMsg]

\* MainConverter.add_conversion_job: whether the job is accepted
add_accepts(input_path, target_format, present) ==
    /\ Exists(input_path, present)
    /\ detect_file_type(input_path) # "unknown"
    /\ is_format_supported(Lower(Suffix(input_path)), target_format)

\* a queue that puts the new job at the head of the list
add_conversion_job_at_head(js, input_path, target_format, present) ==
    IF add_accepts(input_path, target_format, present)
    THEN <<ConversionJob(input_path, target_format)>> \o js
    ELSE js

\* MainConverter.add_conversion_job: the job list it leaves behind
add_conversion_job(js, input_path, target_format, present) ==
    IF add_accepts(input_path, target_format, present)
    THEN Append(js, ConversionJob(input_path, target_format))
    ELSE js

\* MainConverter.validate_conversion_setup, lines 225-247: the convertible files
convertible_files(file_paths, target_format) ==
    SelectSeq(file_paths,
              LAMBDA f : /\ detect_file_type(f) # "unknown"
                         /\ Lower(Suffix(f)) # Lower(target_format)
                         /\ is_format_supported(Lower(Suffix(f)), target_format))

\* a validation that does not look for the files on disk
validate_conversion_setup_unprobed(file_paths, dir, target_format, present) ==
    /\ file_paths # << >>
    /\ dir # ""
    /\ dir # "unwritable"
    /\ convertible_files(file_paths, target_format) # << >>

\* MainConverter.validate_conversion_setup: is_valid
validate_conversion_setup(file_paths, dir, target_format, present) ==
    /\ file_paths # << >>
    /\ dir # ""
    /\ dir # "unwritable"
    /\ \A k \in 1..Len(file_paths) : Exists(file_paths[k], present)
    /\ convertible_files(file_paths, target_format) # << >>

\* MainConverter.start_conversion, lines 295-297: one add_conversion_job per file
RECURSIVE add_all(_, _, _, _)
add_all(js, file_paths, target_format, present) ==
    IF file_paths = << >> THEN js
    ELSE add_all(add_conversion_job(js, Head(file_paths), target_format, present),
                 Tail(file_paths), target_format, present)

\* MainConverter.clear_jobs: the list it leaves behind
clear_jobs(js) == IF ~is_converting THEN << >> ELSE js

\* MainConverter.get_conversion_summary
get_conversion_summary ==
    [total      |-> Len(jobs),
     completed  |-> Cardinality({k \in 1..Len(jobs) : jobs[k].status = "completed"}),
     failed     |-> Cardinality({k \in 1..Len(jobs) : jobs[k].status = "failed"}),
     pending    |-> Cardinality({k \in 1..Len(jobs) : jobs[k].status = "pending"}),
     processing |-> Cardinality({k \in 1..Len(jobs) : jobs[k].status = "processing"})]

\* process_next_job, line 357: only DocumentConverter defines can_convert; the
\* video, audio and image converters have no such method and the call raises
\* AttributeError, caught at line 384
converter_has_can_convert(file_type) == file_type = "document"

\* DocumentConverter.can_convert
can_convert(input_format, output_format) ==
    /\ Lower(input_format) \in DocInput
    /\ Lower(output_format) \in DocOutput

----------------------------------------------------------------------------
(* DocumentConverter: engines and the conversion matrix *)

OnlyOffice  == "onlyoffice"
LibreOffice == "libreoffice"
Fallback    == "fallback"

Engines == {OnlyOffice, LibreOffice, Fallback}

\* DocumentConverter.engine_capabilities
engine_capabilities ==
    [onlyoffice |->
        [input  |-> {"txt", "docx", "doc", "odt", "rtf", "xlsx", "xls", "ods", "pptx", "ppt", "odp"},
         output |-> {"pdf", "docx", "odt", "rtf", "txt", "html", "xlsx", "ods", "pptx", "odp"}],
     libreoffice |->
        [input  |-> {"docx", "doc", "odt", "rtf", "txt", "xlsx", "xls", "ods", "pptx", "ppt", "odp"},
         output |-> {"pdf", "docx", "odt", "rtf", "txt", "xlsx", "ods", "pptx", "odp", "html"}],
     fallback |->
        [input  |-> {"pdf", "docx", "txt", "rtf"},
         output |-> {"txt", "docx", "pdf", "html"}]]

\* DocumentConverter._can_use_onlyoffice / _can_use_libreoffice / _can_use_fallback:
\* membership in the router's own table, with no lower()
can_use(engine, input_ext, target_format) ==
    /\ input_ext \in engine_capabilities[engine].input
    /\ target_format \in engine_capabilities[engine].output

\* OnlyOfficeEngine.supported_input_formats / supported_output_formats
OnlyOfficeInput  == {"txt", "docx", "doc", "odt", "rtf", "xlsx", "xls", "ods", "pptx", "ppt", "odp"}
OnlyOfficeOutput == {"pdf", "docx", "odt", "rtf", "txt", "html", "xlsx", "ods", "pptx", "odp"}

\* LibreOfficeEngine.format_mapping keys
LibreOfficeFormats == {"pdf", "docx", "doc", "odt", "rtf", "txt", "html",
                       "xlsx", "xls", "ods", "csv", "pptx", "ppt", "odp"}

\* FallbackEngine.conversion_matrix keys
FallbackMatrix == {<<"pdf", "txt">>, <<"pdf", "docx">>, <<"docx", "txt">>,
                   <<"docx", "pdf">>, <<"txt", "pdf">>, <<"txt", "docx">>,
                   <<"rtf", "txt">>, <<"rtf", "docx">>}

\* The engine's own declaration of support: OnlyOfficeEngine.can_convert and
\* FallbackEngine.can_convert; LibreOfficeEngine defines no can_convert, the
\* only declaration of its formats is the router's capability table
engine_can_convert(engine, input_format, output_format) ==
    CASE engine = OnlyOffice ->
            /\ Lower(input_format) \in OnlyOfficeInput
            /\ Lower(output_format) \in OnlyOfficeOutput
      [] engine = Fallback ->
            <<Lower(input_format), Lower(output_format)>> \in FallbackMatrix
      [] OTHER ->
            can_use(LibreOffice, Lower(input_format), Lower(output_format))

\* What is_available() of an engine may answer when it is called: the
\* OnlyOffice server is probed on every call and may be up or down at any
\* time; LibreOffice's executable path is found once, at construction;
\* FallbackEngine.is_available is true when any of its libraries was
\* importable at start-up, and the model takes the libraries of the
\* application's requirements as installed
is_available(engine) ==
    CASE engine = OnlyOffice  -> BOOLEAN
      [] engine = LibreOffice -> {lo_executable}
      [] OTHER                -> {TRUE}

\* DocumentConverter.__init__, lines 56-60
AvailableAtConstruction(oo, lo) ==
    (IF oo THEN <<OnlyOffice>> ELSE << >>) \o (IF lo THEN <<LibreOffice>> ELSE << >>)

ToPdfInputs == {"txt", "docx", "doc", "odt", "rtf", "xlsx", "xls", "ods", "pptx", "ppt", "odp"}

\* DocumentConverter.conversion_methods: its keys
ConversionKeys ==
    {<<i, "pdf">> : i \in ToPdfInputs}
        \cup {<<"pdf", "docx">>, <<"pdf", "txt">>, <<"docx", "txt">>, <<"txt", "docx">>}

\* a matrix whose entries are turned round from one run to the next
conversion_methods_rotating(input_ext, target_format) ==
    LET entry == CASE <<input_ext, target_format>> \in {<<i, "pdf">> : i \in ToPdfInputs} ->
                        available_engines
                   [] <<input_ext, target_format>> \in {<<"pdf", "docx">>, <<"pdf", "txt">>} ->
                        <<Fallback>>
                   [] <<input_ext, target_format>> \in {<<"docx", "txt">>, <<"txt", "docx">>} ->
                        available_engines \o <<Fallback>>
                   [] OTHER -> << >>
    IN  IF jobs_gen % 2 = 1 /\ Len(entry) >= 2
        THEN Tail(entry) \o <<Head(entry)>>
        ELSE entry

\* DocumentConverter.conversion_methods.get(conversion_key, [])
conversion_methods(input_ext, target_format) ==
    CASE <<input_ext, target_format>> \in {<<i, "pdf">> : i \in ToPdfInputs} ->
            available_engines
      [] <<input_ext, target_format>> \in {<<"pdf", "docx">>, <<"pdf", "txt">>} ->
            <<Fallback>>
      [] <<input_ext, target_format>> \in {<<"docx", "txt">>, <<"txt", "docx">>} ->
            available_engines \o <<Fallback>>
      [] OTHER -> << >>

\* DocumentConverter.convert, lines 276-286: engines_to_try
engines_to_try(input_ext, target_format) ==
    IF conversion_methods(input_ext, target_format) # << >>
    THEN conversion_methods(input_ext, target_format)
    ELSE IF can_use(OnlyOffice, input_ext, target_format)
         THEN <<OnlyOffice, LibreOffice>>
    ELSE IF can_use(LibreOffice, input_ext, target_format)
         THEN <<LibreOffice>>
    ELSE IF can_use(Fallback, input_ext, target_format)
         THEN <<Fallback>>
    ELSE << >>

\* DocumentConverter.get_conversion_strategy: the engines it lists, in order.
\* An explicit entry is taken as it is, even when it is empty; otherwise every
\* engine whose row of engine_capabilities has the pair is listed
get_conversion_strategy(input_ext, target_format) ==
    IF <<input_ext, target_format>> \in ConversionKeys
    THEN conversion_methods(input_ext, target_format)
    ELSE SelectSeq(<<OnlyOffice, LibreOffice, Fallback>>,
                   LAMBDA e : can_use(e, input_ext, target_format))

\* DocumentConverter.convert, line 292
progress_step(n) == 80 \div n

\* the engine's percentage laid over the whole 20..100 range, not over the
\* engine's own share of it
engine_progress_unscaled(current_progress, p, step) ==
    current_progress * ProgressScale + p * 80

\* DocumentConverter.convert, lines 310 and 319: the value the engine's
\* callback passes on, current_progress + p * progress_step / 100, in hundredths
engine_progress(current_progress, p, step) ==
    current_progress * ProgressScale + p * step

\* a whole percentage in hundredths
whole(p) == p * ProgressScale

\* MainConverter.process_next_job, lines 368-373: progress_update, the callback
\* the router is given. It turns the job's progress (here in hundredths) into
\* the run's overall percentage, int(current_job_index * job_weight +
\* progress * job_weight / 100) with job_weight = 100 / len(jobs), reading
\* current_job_index and the job list as they are when it is called
progress_update(progress) ==
    (current_job_index * 100 * ProgressScale + progress) \div (ProgressScale * Len(jobs))

\* MainConverter.process_next_job, lines 398-400: the overall percentage
\* reported when the job is over
overall_progress == ((current_job_index + 1) * 100) \div Len(jobs)

----------------------------------------------------------------------------
(* The engines, as the router sees them *)

\* percentages an engine hands to its progress callback
EnginePercents == {10, 50, 100}

\* The checks an engine's convert makes before it does any work:
\* OnlyOfficeEngine.convert lines 135-155, LibreOfficeEngine.convert lines
\* 146-158, FallbackEngine.convert lines 117-120. f.engine_up is what the
\* engine's is_available() answered when the engine was called. An engine
\* that passes these checks can still fail (a missing input file, a missing
\* library, a tool error, a timeout)
engine_runs(engine, f) ==
    CASE engine = OnlyOffice ->
            /\ f.engine_up
            /\ f.input_ext \in OnlyOfficeInput
            /\ f.target_format \in OnlyOfficeOutput
      [] engine = LibreOffice ->
            /\ f.engine_up
            /\ f.target_format \in LibreOfficeFormats
      [] OTHER ->
            <<Lower(f.input_ext), Lower(f.target_format)>> \in FallbackMatrix

\* Whether the engine can hand percentage p to its callback now: LibreOffice
\* and the fallback engine report 10 before their format checks, every later
\* report follows the checks; percentages do not decrease
engine_may_report(engine, f, p) ==
    /\ p > f.engine_pct
    /\ \/ engine_runs(engine, f)
       \/ /\ p = 10
          /\ engine = Fallback \/ (engine = LibreOffice /\ f.engine_up)

----------------------------------------------------------------------------
(* DocumentConverter.convert: the call frame of one call *)

IdleFrame ==
    [pc               |-> "idle",
     input_path       |-> "",
     input_ext        |-> "",
     target_format    |-> "",
     engines          |-> << >>,
     i                |-> 0,
     progress_step    |-> 0,
     current_progress |-> 0,
     last_error       |-> NoMsg,
     engine_pct       |-> 0,
     engine_up        |-> FALSE,
     attempts         |-> << >>,
     sink             |-> -1,
     overall          |-> -1,
     success          |-> FALSE,
     message          |-> NoMsg]

\* a call of convert(input_path, ..., target_format, ..., progress_callback)
CalledFrame(input_path, target_format) ==
    [IdleFrame EXCEPT !.pc = "called",
                      !.input_path = input_path,
                      !.input_ext = Lower(Suffix(input_path)),
                      !.target_format = target_format]

\* the frame once the call has returned (success, message)
Returned(f, success, message) ==
    [f EXCEPT !.pc = "returned", !.success = success, !.message = message]

\* a loop that calls the head of the list every time round
EngineAt_first(f) == f.engines[1]

\* the engine the loop is at
EngineAt(f) == f.engines[f.i]

\* lines 259-293: validation, candidate lookup, loop set-up
convert_enter(f, exists) ==
    IF f.input_ext \notin DocInput
    THEN Returned(f, FALSE, Msg("unsupported_input", "", ""))
    ELSE IF Lower(f.target_format) \notin DocOutput
    THEN Returned(f, FALSE, Msg("unsupported_output", "", ""))
    ELSE IF ~exists
    THEN Returned(f, FALSE, Msg("not_found", "", ""))
    ELSE LET tries == engines_to_try(f.input_ext, f.target_format)
             f10   == [f EXCEPT !.sink = whole(10),
                                !.overall = progress_update(whole(10))]
         IN  IF tries = << >>
             THEN Returned(f10, FALSE, Msg("no_engine", "", ""))
             ELSE [f10 EXCEPT !.pc = "try",
                              !.engines = tries,
                              !.i = 1,
                              !.last_error = NoMsg,
                              !.progress_step = progress_step(Len(tries)),
                              !.current_progress = 20]

\* lines 296-320: the progress report that opens an attempt, and the call of
\* the engine's convert
convert_attempt(f, up) ==
    [f EXCEPT !.pc = "engine",
              !.sink = whole(f.current_progress),
              !.overall = progress_update(whole(f.current_progress)),
              !.engine_pct = 0,
              !.engine_up = up,
              !.attempts = Append(f.attempts, [engine |-> EngineAt(f), outcome |-> "running"])]

\* the outcome of the running attempt, recorded
Outcome(f, outcome) ==
    [f EXCEPT !.attempts[Len(f.attempts)].outcome = outcome]

\* lines 310/319: the engine's callback, mapped onto the router's scale
convert_progress(f, p) ==
    [f EXCEPT !.engine_pct = p,
              !.sink = engine_progress(f.current_progress, p, f.progress_step),
              !.overall = progress_update(
                              engine_progress(f.current_progress, p, f.progress_step))]

\* lines 322-325: the engine returned success
convert_success(f) ==
    Returned([Outcome(f, "ok") EXCEPT !.sink = whole(100),
                                      !.overall = progress_update(whole(100))],
             TRUE, Msg("converted", EngineAt(f), ""))

\* a router that reports the first error it met, not the last
convert_failure_first_error(f, cause) ==
    LET error == IF f.last_error = NoMsg
                 THEN Msg("engine_error", EngineAt(f), cause)
                 ELSE f.last_error
        g     == [Outcome(f, cause) EXCEPT !.last_error = error]
    IN  IF f.i < Len(f.engines)
        THEN [g EXCEPT !.pc = "try",
                       !.sink = whole(f.current_progress + f.progress_step),
                       !.overall = progress_update(whole(f.current_progress + f.progress_step)),
                       !.current_progress = f.current_progress + f.progress_step,
                       !.i = f.i + 1]
        ELSE Returned([g EXCEPT !.current_progress = f.current_progress + f.progress_step],
                      FALSE, Msg("all_failed", error.engine, error.cause))

\* a router that lets an engine's exception end the call
convert_failure_raise_ends_call(f, cause) ==
    LET error == Msg("engine_error", EngineAt(f), cause)
        g     == [Outcome(f, cause) EXCEPT !.last_error = error]
    IN  IF f.i < Len(f.engines) /\ cause # "raised"
        THEN [g EXCEPT !.pc = "try",
                       !.sink = whole(f.current_progress + f.progress_step),
                       !.overall = progress_update(whole(f.current_progress + f.progress_step)),
                       !.current_progress = f.current_progress + f.progress_step,
                       !.i = f.i + 1]
        ELSE Returned([g EXCEPT !.current_progress = f.current_progress + f.progress_step],
                      FALSE, Msg("all_failed", error.engine, error.cause))

\* lines 326-338: the engine returned failure (cause "failed") or raised
\* (cause "raised"): last_error is set, and either the next engine is tried
\* or the loop is over and the call returns the last error
convert_failure(f, cause) ==
    LET error == Msg("engine_error", EngineAt(f), cause)
        g     == [Outcome(f, cause) EXCEPT !.last_error = error]
    IN  IF f.i < Len(f.engines)
        THEN [g EXCEPT !.pc = "try",
                       !.sink = whole(f.current_progress + f.progress_step),
                       !.overall = progress_update(whole(f.current_progress + f.progress_step)),
                       !.current_progress = f.current_progress + f.progress_step,
                       !.i = f.i + 1]
        ELSE Returned([g EXCEPT !.current_progress = f.current_progress + f.progress_step],
                      FALSE, Msg("all_failed", error.engine, error.cause))

----------------------------------------------------------------------------
(* Initial state: the window is open, MainConverter and DocumentConverter  *)
(* are constructed, no worker has been created.                            *)

NoSignal == [kind |-> "none", success |-> FALSE, completed |-> 0, failed |-> 0]

NoArgs == [file_paths |-> << >>, output_dir |-> "", target_format |-> ""]

NoJob == [gen |-> 0, idx |-> 0]

Init ==
    /\ file_list \in FileLists
    /\ format_text \in Targets
    /\ output_dir \in OutputDirs
    /\ lo_executable \in BOOLEAN
    /\ \E oo \in is_available(OnlyOffice) :
            available_engines = AvailableAtConstruction(oo, lo_executable)
    /\ jobs = << >>
    /\ jobs_gen = 0
    /\ current_job_index = 0
    /\ is_converting = FALSE
    /\ pc = [w \in Workers |-> "unused"]
    /\ should_stop = [w \in Workers |-> FALSE]
    /\ args = [w \in Workers |-> NoArgs]
    /\ cur = [w \in Workers |-> NoJob]
    /\ finished = [w \in Workers |-> NoSignal]
    /\ handled = [w \in Workers |-> FALSE]
    /\ conversion_worker = 0
    /\ stop_btn = FALSE
    /\ conv = [w \in Workers |-> IdleFrame]

----------------------------------------------------------------------------
(* MainWindow handlers (the UI thread) *)

\* QThread.isRunning()
isRunning(w) == pc[w] \notin {"unused", "done"}

\* the worker object on_convert creates
NextWorker == CHOOSE w \in Workers : pc[w] = "unused" /\ \A v \in Workers : pc[v] = "unused" => w <= v

\* the session has created fewer than n workers so far
CreatedFewerThan(n) == NextWorker <= n

\* MainWindow.on_convert: the button can be pressed whenever the list holds a
\* file and a format is selected (update_convert_button_state re-enables it on
\* every change of the list or the format); a click that fails the window's
\* own validation only writes to the status bar
on_convert(n) ==
    /\ \E w \in Workers : pc[w] = "unused"
    /\ CreatedFewerThan(n)
    /\ \E present \in Probes :
            validate_conversion_setup(file_list, output_dir, format_text, present)
    /\ stop_btn' = TRUE
    /\ conversion_worker' = NextWorker
    /\ pc' = [pc EXCEPT ![NextWorker] = "start"]
    /\ args' = [args EXCEPT ![NextWorker] =
                    [file_paths |-> file_list, output_dir |-> output_dir,
                     target_format |-> format_text]]
    /\ UNCHANGED <<file_list, format_text, output_dir, handled>>
    /\ UNCHANGED <<should_stop, cur, finished>>
    /\ UNCHANGED <<env_vars, queue_vars, conv>>

\* MainWindow.on_stop; ConversionWorker.stop. The wait(3000) that follows only
\* blocks the UI thread, the worker runs on
on_stop ==
    /\ stop_btn
    /\ should_stop' = IF conversion_worker # 0 /\ isRunning(conversion_worker)
                      THEN [should_stop EXCEPT ![conversion_worker] = TRUE]
                      ELSE should_stop
    /\ stop_btn' = FALSE
    /\ UNCHANGED <<file_list, format_text, output_dir, conversion_worker, handled>>
    /\ UNCHANGED <<pc, args, cur, finished>>
    /\ UNCHANGED <<env_vars, queue_vars, conv>>

\* MainWindow.on_conversion_finished, run for the signal of worker w; the
\* signal is consumed and the finished thread object is released
on_conversion_finished(w) ==
    /\ pc[w] = "done"
    /\ ~handled[w]
    /\ handled' = [handled EXCEPT ![w] = TRUE]
    /\ stop_btn' = FALSE
    /\ conversion_worker' = 0
    /\ finished' = [finished EXCEPT ![w] = NoSignal]
    /\ should_stop' = [should_stop EXCEPT ![w] = FALSE]
    /\ args' = [args EXCEPT ![w] = NoArgs]
    /\ UNCHANGED <<pc, cur>>
    /\ UNCHANGED <<file_list, format_text, output_dir>>
    /\ UNCHANGED <<env_vars, queue_vars, conv>>

----------------------------------------------------------------------------
(* MainConverter, called on the worker thread *)

\* a start that goes ahead once a stop has been requested
start_accepted_once_stopping(w, present) ==
    /\ ~is_converting \/ \E v \in Workers : should_stop[v]
    /\ validate_conversion_setup(args[w].file_paths, args[w].output_dir,
                                 args[w].target_format, present)

\* a start that does not look at is_converting
start_accepted_while_converting(w, present) ==
    validate_conversion_setup(args[w].file_paths, args[w].output_dir,
                              args[w].target_format, present)

\* MainConverter.start_conversion: is the call accepted
start_accepted(w, present) ==
    /\ ~is_converting
    /\ validate_conversion_setup(args[w].file_paths, args[w].output_dir,
                                 args[w].target_format, present)

\* MainConverter.start_conversion, lines 293-297: the new job list
started_jobs(w, present) ==
    add_all(clear_jobs(jobs), args[w].file_paths, args[w].target_format, present)

\* the conversion_finished signal a worker emits; the summary signal names
\* the tally it was computed from
Signal(kind, success) ==
    [kind |-> kind, success |-> success,
     completed |-> IF kind = "summary" THEN get_conversion_summary.completed ELSE 0,
     failed |-> IF kind = "summary" THEN get_conversion_summary.failed ELSE 0]

\* ConversionWorker.run, lines 173-179, with MainConverter.start_conversion
WorkerStart(w) ==
    /\ pc[w] = "start"
    /\ \E present \in Probes :
        IF ~start_accepted(w, present)
        THEN /\ finished' = [finished EXCEPT ![w] = Signal("start_failed", FALSE)]
             /\ pc' = [pc EXCEPT ![w] = "done"]
             /\ UNCHANGED queue_vars
        ELSE /\ jobs' = started_jobs(w, present)
             /\ jobs_gen' = jobs_gen + 1
             /\ current_job_index' = 0
             /\ IF started_jobs(w, present) = << >>
                THEN /\ finished' = [finished EXCEPT ![w] = Signal("start_failed", FALSE)]
                     /\ pc' = [pc EXCEPT ![w] = "done"]
                     /\ UNCHANGED is_converting
                ELSE /\ is_converting' = TRUE
                     /\ pc' = [pc EXCEPT ![w] = "loop"]
                     /\ UNCHANGED finished
    /\ UNCHANGED <<should_stop, args, cur>>
    /\ UNCHANGED <<ui_vars, env_vars, conv>>

\* a while condition that does not look at should_stop
loop_continues_ignoring_stop(w) == is_converting

\* ConversionWorker.run, line 182: the while condition
loop_continues(w) == is_converting /\ ~should_stop[w]

\* ConversionWorker.run, line 182: the worker evaluates the while condition
WorkerLoop(w) ==
    /\ pc[w] = "loop"
    /\ pc' = [pc EXCEPT ![w] = IF loop_continues(w) THEN "process" ELSE "after"]
    /\ UNCHANGED <<should_stop, args, cur, finished>>
    /\ UNCHANGED <<ui_vars, env_vars, queue_vars, conv>>

\* MainConverter.process_next_job, line 323: the early return (False, False)
nothing_to_process == ~is_converting \/ current_job_index >= Len(jobs)

\* MainConverter.process_next_job, lines 336-381: what the job is handed to
DispatchFrame(job) ==
    LET file_type == detect_file_type(job.input_path)
        input_extension == Lower(Suffix(job.input_path))
    IN  IF file_type = "unknown"
        THEN Returned(IdleFrame, FALSE, Msg("unknown_type", "", ""))
        ELSE IF ~converter_has_can_convert(file_type)
        THEN Returned(IdleFrame, FALSE, Msg("conversion_error", "", ""))
        ELSE IF ~can_convert(input_extension, job.target_format)
        THEN Returned(IdleFrame, FALSE, Msg("converter_unsupported", "", ""))
        ELSE CalledFrame(job.input_path, job.target_format)

\* MainConverter.process_next_job, lines 323-381: up to the call of the
\* converter's convert
ProcessBegin(w) ==
    /\ pc[w] = "process"
    /\ IF nothing_to_process
       THEN /\ pc' = [pc EXCEPT ![w] = "after"]
            /\ UNCHANGED <<jobs, cur, conv>>
       ELSE /\ jobs' = [jobs EXCEPT ![current_job_index + 1].status = "processing"]
            /\ cur' = [cur EXCEPT ![w] = [gen |-> jobs_gen, idx |-> current_job_index + 1]]
            /\ conv' = [conv EXCEPT ![w] = DispatchFrame(jobs[current_job_index + 1])]
            /\ pc' = [pc EXCEPT ![w] = "convert"]
    /\ UNCHANGED <<jobs_gen, current_job_index, is_converting>>
    /\ UNCHANGED <<should_stop, args, finished>>
    /\ UNCHANGED <<ui_vars, env_vars>>

\* DocumentConverter.convert: validation and candidate lookup
ConvertEnter(w) ==
    /\ conv[w].pc = "called"
    /\ \E present \in Probes :
            conv' = [conv EXCEPT ![w] =
                        convert_enter(conv[w], Exists(conv[w].input_path, present))]
    /\ UNCHANGED <<ui_vars, env_vars, queue_vars, worker_vars>>

\* DocumentConverter.convert: the next engine is called
ConvertAttempt(w) ==
    /\ conv[w].pc = "try"
    /\ \E up \in is_available(EngineAt(conv[w])) :
            conv' = [conv EXCEPT ![w] = convert_attempt(conv[w], up)]
    /\ UNCHANGED <<ui_vars, env_vars, queue_vars, worker_vars>>

\* the running engine reports progress
EngineReports(w) ==
    /\ conv[w].pc = "engine"
    /\ \E p \in EnginePercents :
        /\ engine_may_report(EngineAt(conv[w]), conv[w], p)
        /\ conv' = [conv EXCEPT ![w] = convert_progress(conv[w], p)]
    /\ UNCHANGED <<ui_vars, env_vars, queue_vars, worker_vars>>

\* the running engine returns (True, message): every engine reports 100 to its
\* callback before it does (onlyoffice_engine.py 210-214 and 299-304,
\* libreoffice_engine.py 227-230, fallback_engine.py 138-141)
EngineSucceeds(w) ==
    /\ conv[w].pc = "engine"
    /\ conv[w].engine_pct = 100
    /\ conv' = [conv EXCEPT ![w] = convert_success(conv[w])]
    /\ UNCHANGED <<ui_vars, env_vars, queue_vars, worker_vars>>

\* the running engine returns (False, message)
EngineFails(w) ==
    /\ conv[w].pc = "engine"
    /\ conv[w].engine_pct < 100
    /\ conv' = [conv EXCEPT ![w] = convert_failure(conv[w], "failed")]
    /\ UNCHANGED <<ui_vars, env_vars, queue_vars, worker_vars>>

\* an exception leaves the engine's convert and is caught at line 331
EngineRaises(w) ==
    /\ conv[w].pc = "engine"
    /\ conv[w].engine_pct < 100
    /\ conv' = [conv EXCEPT ![w] = convert_failure(conv[w], "raised")]
    /\ UNCHANGED <<ui_vars, env_vars, queue_vars, worker_vars>>

\* a queue that fails a job without recording why
job_done_without_message(js, ref, f) ==
    IF ref.gen # jobs_gen THEN js
    ELSE IF f.success
    THEN [js EXCEPT ![ref.idx].status = "completed", ![ref.idx].progress = 100]
    ELSE [js EXCEPT ![ref.idx].status = "failed"]

\* a queue that marks every processed job completed
job_done_always_completed(js, ref, f) ==
    IF ref.gen # jobs_gen THEN js
    ELSE [js EXCEPT ![ref.idx].status = "completed", ![ref.idx].progress = 100]

\* MainConverter.process_next_job, lines 389-395: the job's final status. The
\* worker writes through its current_job reference; a job object that has
\* been dropped from the list since is written to no more
job_done(js, ref, f) ==
    IF ref.gen # jobs_gen THEN js
    ELSE IF f.success
    THEN [js EXCEPT ![ref.idx].status = "completed", ![ref.idx].progress = 100]
    ELSE [js EXCEPT ![ref.idx].status = "failed", ![ref.idx].error_message = f.message]

\* MainConverter.process_next_job, lines 389-409, after the converter returned;
\* MainConverter.finish_conversion when no job is left
ProcessEnd(w) ==
    /\ pc[w] = "convert"
    /\ conv[w].pc = "returned"
    /\ jobs' = job_done(jobs, cur[w], conv[w])
    /\ current_job_index' = current_job_index + 1
    /\ LET has_more_jobs == current_job_index + 1 < Len(jobs)
       IN  /\ is_converting' = IF has_more_jobs THEN is_converting ELSE FALSE
           /\ pc' = [pc EXCEPT ![w] = IF has_more_jobs THEN "loop" ELSE "after"]
    /\ conv' = [conv EXCEPT ![w] = IdleFrame]
    /\ cur' = [cur EXCEPT ![w] = NoJob]
    /\ UNCHANGED jobs_gen
    /\ UNCHANGED <<should_stop, args, finished>>
    /\ UNCHANGED <<ui_vars, env_vars>>

\* ConversionWorker.run, lines 191-199, with MainConverter.stop_conversion
WorkerAfter(w) ==
    /\ pc[w] = "after"
    /\ IF should_stop[w]
       THEN /\ is_converting' = FALSE
            /\ finished' = [finished EXCEPT ![w] = Signal("interrupted", FALSE)]
       ELSE /\ UNCHANGED is_converting
            /\ finished' = [finished EXCEPT ![w] =
                                Signal("summary", get_conversion_summary.failed = 0)]
    /\ pc' = [pc EXCEPT ![w] = "done"]
    /\ UNCHANGED <<jobs, jobs_gen, current_job_index>>
    /\ UNCHANGED <<should_stop, args, cur>>
    /\ UNCHANGED <<ui_vars, env_vars, conv>>

----------------------------------------------------------------------------

\* every step but the click on the convert button
Others ==
    \/ on_stop
    \/ \E w \in Workers : on_conversion_finished(w)
    \/ \E w \in Workers : WorkerStart(w)
    \/ \E w \in Workers : WorkerLoop(w)
    \/ \E w \in Workers : ProcessBegin(w)
    \/ \E w \in Workers : ConvertEnter(w)
    \/ \E w \in Workers : ConvertAttempt(w)
    \/ \E w \in Workers : EngineReports(w)
    \/ \E w \in Workers : EngineSucceeds(w)
    \/ \E w \in Workers : EngineFails(w)
    \/ \E w \in Workers : EngineRaises(w)
    \/ \E w \in Workers : ProcessEnd(w)
    \/ \E w \in Workers : WorkerAfter(w)

\* a session in which the convert button starts at most MaxWorkers workers
Next ==
    \/ on_convert(MaxWorkers)
    \/ Others

Spec == Init /\ [][Next]_vars

\* A session with one more click on the convert button: two documents that
\* only the library fallback converts, to plain text
InitThree ==
    /\ Init
    /\ file_list = <<"a.docx", "c.PDF">>
    /\ format_text = "txt"
    /\ output_dir = "out"
    /\ ~lo_executable
    /\ available_engines = << >>

NextThree ==
    \/ on_convert(MaxWorkers + 1)
    \/ Others

SpecThree == InitThree /\ [][NextThree]_vars

\* start_conversion called directly, with arguments no window has validated:
\* worker 1 has been created with any file list, destination and format
DirectLists == OrderedLists(Len(FileUniverse))

InitDirect ==
    /\ file_list \in DirectLists
    /\ format_text \in Targets
    /\ output_dir \in OutputDirs
    /\ lo_executable = FALSE
    /\ available_engines = << >>
    /\ jobs = << >>
    /\ jobs_gen = 0
    /\ current_job_index = 0
    /\ is_converting = FALSE
    /\ pc = [w \in Workers |-> IF w = 1 THEN "start" ELSE "unused"]
    /\ should_stop = [w \in Workers |-> FALSE]
    /\ args = [w \in Workers |->
                    IF w = 1
                    THEN [file_paths |-> file_list, output_dir |-> output_dir,
                          target_format |-> format_text]
                    ELSE NoArgs]
    /\ cur = [w \in Workers |-> NoJob]
    /\ finished = [w \in Workers |-> NoSignal]
    /\ handled = [w \in Workers |-> FALSE]
    /\ conversion_worker = 1
    /\ stop_btn = TRUE
    /\ conv = [w \in Workers |-> IdleFrame]

SpecDirect == InitDirect /\ [][Next]_vars

----------------------------------------------------------------------------
(* Properties of DocumentConverter.convert *)

\* how an attempt that did not succeed ended
Failures == {"failed", "raised"}

\* every attempt of the frame before the k-th ended in failure
EarlierFailed(f, k) == \A j \in 1..(k - 1) : f.attempts[j].outcome \in Failures

\* C1: when the first N-1 candidates fail and the last one succeeds, convert
\* returns success; 100 reaches the progress sink only once the candidate
\* that is succeeding has itself reported 100 to its callback, and never
\* while a candidate that is not the last of the list is running.
C1_SuccessAfterFailures ==
    \A w \in Workers :
        LET f == conv[w]
            n == Len(f.attempts)
        IN  /\ (/\ f.pc = "returned"
                /\ n >= 1
                /\ f.attempts[n].outcome = "ok"
                /\ EarlierFailed(f, n))
               => (f.success /\ f.message.kind = "converted")
            /\ f.sink = whole(100)
               => (/\ n >= 1
                   /\ f.engine_pct = 100
                   /\ f.attempts[n].outcome \notin Failures
                   /\ EarlierFailed(f, n))
            /\ (f.pc = "engine" /\ f.i < Len(f.engines)) => f.sink < whole(100)

\* C1 happens: three candidates, two failures, the third succeeds and 100 is
\* at the sink
C1_Witness ==
    \E w \in Workers :
        /\ conv[w].pc = "returned"
        /\ conv[w].success
        /\ Len(conv[w].engines) = 3
        /\ Len(conv[w].attempts) = 3
        /\ conv[w].attempts[1].outcome \in Failures
        /\ conv[w].attempts[2].outcome \in Failures
        /\ conv[w].sink = whole(100)

\* C2: when every candidate of the list fails, by returning failure or by
\* raising, convert returns failure and the error it reports is the one of
\* the last candidate of the list.
C2_LastErrorReported ==
    \A w \in Workers :
        LET f == conv[w]
            n == Len(f.engines)
        IN  /\ (/\ f.pc = "returned"
                /\ n >= 1
                /\ Len(f.attempts) = n
                /\ EarlierFailed(f, n + 1))
               => (/\ ~f.success
                   /\ f.message = Msg("all_failed", f.engines[n], f.attempts[n].outcome))
            /\ (f.pc = "returned" /\ f.message.kind = "all_failed")
               => (/\ Len(f.attempts) = n
                   /\ EarlierFailed(f, n + 1))

\* C2 happens: three candidates all fail, the first by raising and the last
\* by returning failure
C2_Witness ==
    \E w \in Workers :
        /\ conv[w].pc = "returned"
        /\ ~conv[w].success
        /\ Len(conv[w].attempts) = 3
        /\ conv[w].attempts[1].outcome = "raised"
        /\ conv[w].attempts[3].outcome = "failed"

\* C3: the engines a call of convert invokes are a prefix of the candidate
\* list, in its order, no engine twice; the attempt that succeeds is the
\* last one of the call.
C3_PrefixInOrder ==
    \A w \in Workers :
        LET f == conv[w]
            n == Len(f.attempts)
        IN  /\ n <= Len(f.engines)
            /\ \A k \in 1..n : f.attempts[k].engine = f.engines[k]
            /\ \A j, k \in 1..n : j # k => f.attempts[j].engine # f.attempts[k].engine
            /\ EarlierFailed(f, n)
            /\ (n >= 1 /\ f.attempts[n].outcome = "ok") => f.pc = "returned"

\* C3 happens: the second of three candidates succeeds and the third is
\* never called
C3_Witness ==
    \E w \in Workers :
        /\ conv[w].pc = "returned"
        /\ Len(conv[w].engines) = 3
        /\ Len(conv[w].attempts) = 2
        /\ conv[w].attempts[2].outcome = "ok"

\* the call of convert has got past its validation and candidate lookup
Entered(f) == f.pc \in {"try", "engine", "returned"} /\ f.input_path # ""

\* C4: for a pair that has no entry of its own in the conversion matrix and
\* that no engine's own can_convert accepts, the candidate list is empty and
\* convert fails without calling any engine.
C4_UndeclaredPairNoEngine ==
    \A w \in Workers :
        LET f == conv[w]
        IN  (/\ Entered(f)
             /\ <<f.input_ext, f.target_format>> \notin ConversionKeys
             /\ \A e \in Engines : ~engine_can_convert(e, f.input_ext, f.target_format))
            => (/\ f.engines = << >>
                /\ f.attempts = << >>
                /\ f.pc = "returned"
                /\ ~f.success)

\* C5: an engine's convert is called only when, at that moment, the engine's
\* own can_convert accepts the pair and its is_available() answers true.
C5_CalledOnlyIfAvailable ==
    \A w \in Workers :
        conv[w].pc = "engine"
            => (/\ conv[w].engine_up
                /\ engine_can_convert(EngineAt(conv[w]), conv[w].input_ext,
                                      conv[w].target_format))

\* C6: an exception raised by a candidate counts as that candidate's
\* failure: the next candidate of the list is tried, or, after the last one,
\* convert returns failure with that error; the exception never ends the call
\* while a candidate is left.
C6_RaiseIsFailure ==
    \A w \in Workers :
        LET f == conv[w]
            n == Len(f.attempts)
        IN  \A k \in 1..n :
                f.attempts[k].outcome = "raised"
                    => IF k < Len(f.engines)
                       THEN \/ n > k
                            \/ (f.pc = "try" /\ f.i = k + 1
                                    /\ f.last_error = Msg("engine_error", f.engines[k], "raised"))
                       ELSE /\ f.pc = "returned"
                            /\ ~f.success
                            /\ f.message = Msg("all_failed", f.engines[k], "raised")

\* C6 happens: the first candidate raised and a later one converted the file
C6_Witness ==
    \E w \in Workers :
        /\ conv[w].pc = "returned"
        /\ conv[w].success
        /\ Len(conv[w].attempts) = 2
        /\ conv[w].attempts[1].outcome = "raised"

----------------------------------------------------------------------------
(* Properties of the job queue and the worker *)

\* the same format, whatever the case of the letters
SameFormat(input_path, target_format) ==
    Lower(Suffix(input_path)) = Lower(target_format)

\* C7: add_conversion_job rejects a file whose extension is the target
\* format, compared without regard to case, and leaves the job list as it
\* was; no such job is ever in the list.
C7_SameFormatRejected ==
    /\ \A k \in 1..Len(jobs) : ~SameFormat(jobs[k].input_path, jobs[k].target_format)
    /\ \A f \in Files : \A t \in Targets : \A present \in Probes :
            SameFormat(f, t)
                => (/\ ~add_accepts(f, t, present)
                    /\ add_conversion_job(jobs, f, t, present) = jobs)

\* C7 happens: a run was started with a file already in the target format,
\* in another case of the letters, and the list holds the other files only
C7_Witness ==
    \E w \in Workers :
        /\ isRunning(w)
        /\ pc[w] # "start"
        /\ jobs # << >>
        /\ Len(jobs) < Len(args[w].file_paths)
        /\ \E k \in 1..Len(args[w].file_paths) :
                /\ SameFormat(args[w].file_paths[k], args[w].target_format)
                /\ Suffix(args[w].file_paths[k]) # args[w].target_format

\* the worker's step that ends process_next_job for a job still in the list
EndsJob(w) == pc[w] = "convert" /\ pc'[w] # "convert" /\ cur[w].gen = jobs_gen

\* C8, as stated: a run of several files of which one is missing is still
\* started, and the missing file's job fails on its own: a start that has
\* nothing against it but a missing file is not rejected.
C8_MissingFileRunStarts ==
    [][\A w \in Workers :
        (/\ pc[w] = "start"
         /\ pc'[w] # "start"
         /\ ~is_converting
         /\ validate_conversion_setup(args[w].file_paths, args[w].output_dir,
                                      args[w].target_format, Files))
        => pc'[w] = "loop"]_vars

\* C8, amended: a job whose input file is found missing when its turn comes
\* fails without any engine being called; the other jobs keep their status,
\* the run goes on to the next job, and the summary the worker reports
\* counts the jobs by their final status.
C8_MissingFileFailsAlone ==
    /\ [](\A w \in Workers :
            (conv[w].pc = "returned" /\ conv[w].message.kind = "not_found")
                => (conv[w].attempts = << >> /\ ~conv[w].success))
    /\ [][\A w \in Workers :
            /\ (EndsJob(w) /\ conv[w].message.kind = "not_found")
                => (/\ jobs'[cur[w].idx].status = "failed"
                    /\ jobs'[cur[w].idx].error_message.kind = "not_found"
                    /\ \A k \in 1..Len(jobs) : k # cur[w].idx => jobs'[k] = jobs[k]
                    /\ current_job_index + 1 < Len(jobs)
                            => (pc'[w] = "loop" /\ is_converting' = is_converting))
            /\ (pc[w] = "after" /\ pc'[w] = "done" /\ finished'[w].kind = "summary")
                => (/\ finished'[w].completed = get_conversion_summary.completed
                    /\ finished'[w].failed = get_conversion_summary.failed
                    /\ finished'[w].success = (get_conversion_summary.failed = 0))
       ]_vars

\* C8 happens: three jobs, the second failed for its missing file, the other
\* two completed, and the worker reported completed=2, failed=1
C8_Witness ==
    \E w \in Workers :
        /\ finished[w].kind = "summary"
        /\ finished[w].completed = 2
        /\ finished[w].failed = 1
        /\ Len(jobs) = 3
        /\ jobs[1].status = "completed"
        /\ jobs[2].status = "failed"
        /\ jobs[2].error_message.kind = "not_found"
        /\ jobs[3].status = "completed"

\* C9, as stated: once stop has been requested, the worker starts no
\* further job.
C9_NoJobStartsAfterStop ==
    [][\A w \in Workers :
        (should_stop[w] /\ pc[w] = "process") => pc'[w] # "convert"]_vars

\* C9, amended: a stop request that the worker's while condition sees ends
\* the run there: the worker starts no further job, the job list is left as
\* it is (later jobs stay pending), is_converting becomes false and the
\* worker reports the run as interrupted; a job already started ends with
\* the status its conversion gave it.
C9_StopSeenAtLoopCheck ==
    [][\A w \in Workers :
        /\ (pc[w] = "loop" /\ should_stop[w] /\ pc'[w] # "loop")
            => (pc'[w] = "after" /\ UNCHANGED queue_vars /\ conv' = conv)
        /\ (pc[w] = "after" /\ should_stop[w] /\ pc'[w] # "after")
            => (/\ pc'[w] = "done"
                /\ ~is_converting'
                /\ finished'[w].kind = "interrupted"
                /\ ~finished'[w].success
                /\ UNCHANGED <<jobs, jobs_gen, current_job_index>>)
        /\ (EndsJob(w) /\ should_stop[w])
            => jobs'[cur[w].idx].status =
                    IF conv[w].success THEN "completed" ELSE "failed"
      ]_vars

\* C9 happens: the run was stopped after its first job completed; the later
\* jobs are pending and the worker reported the run as interrupted
C9_Witness ==
    \E w \in Workers :
        /\ finished[w].kind = "interrupted"
        /\ ~is_converting
        /\ Len(jobs) = 3
        /\ jobs[1].status = "completed"
        /\ jobs[2].status = "pending"
        /\ jobs[3].status = "pending"

\* C10: start_conversion called while is_converting is true returns False
\* and leaves the job list, the jobs' statuses, current_job_index and
\* is_converting as they were.
C10_StartWhileConverting ==
    [][\A w \in Workers :
        (pc[w] = "start" /\ is_converting /\ pc'[w] # "start")
            => (/\ UNCHANGED queue_vars
                /\ pc'[w] = "done"
                /\ finished'[w].kind = "start_failed"
                /\ ~finished'[w].success)]_vars

\* C10 happens: a second worker's start was refused while the first
\* worker's run has a job with an engine
C10_Witness ==
    \E w, v \in Workers :
        /\ w # v
        /\ finished[w].kind = "start_failed"
        /\ is_converting
        /\ pc[v] = "convert"
        /\ conv[v].pc = "engine"
        /\ jobs_gen = 1
        /\ \E k \in 1..Len(jobs) : jobs[k].status = "processing"

----------------------------------------------------------------------------
(* Properties of runs that share the one MainConverter *)

\* the jobs of the list that are in the given status
InStatus(status) == {k \in 1..Len(jobs) : jobs[k].status = status}

\* the job is over
Ended(job) == job.status \in {"completed", "failed"}

\* C11: the jobs of the list are processed one at a time and in the order
\* they were added: at most one job is in processing, and a job has left
\* pending only if the job before it is completed or failed.
C11_OneAtATimeInOrder ==
    /\ Cardinality(InStatus("processing")) <= 1
    /\ \A k \in 1..Len(jobs) :
            (k > 1 /\ jobs[k].status # "pending") => Ended(jobs[k - 1])

\* the workers that are inside a converter's convert call
Converting == {w \in Workers : pc[w] = "convert" /\ conv[w].pc # "returned"}

\* C12: whatever the interleaving of convert and stop requests with the
\* worker threads, no two jobs are being converted at the same time: the
\* workers inside a convert call are all on one and the same job.
C12_NoTwoJobsAtOnce ==
    \A w, v \in Converting : cur[w] = cur[v]

\* no worker is in its loop: every run so far has ended
NoRunActive == \A w \in Workers : pc[w] \in {"unused", "start", "done"}

\* C13, as stated: once a run has ended, every job of the list is completed
\* or failed, none is left pending or processing.
C13_NoJobLeftBehind ==
    (/\ NoRunActive
     /\ \E w \in Workers : finished[w].kind \in {"summary", "interrupted"})
        => \A k \in 1..Len(jobs) : Ended(jobs[k])

\* C13, amended: a job that process_next_job has taken up ends, when the
\* call returns, in exactly one of completed or failed; a failed job carries
\* an error message; a job is in processing only while a worker is inside
\* process_next_job for it.
C13_TakenUpJobsEnd ==
    /\ [](\A k \in 1..Len(jobs) :
            /\ jobs[k].status \in {"pending", "processing", "completed", "failed"}
            /\ jobs[k].status = "failed" => jobs[k].error_message.kind # ""
            /\ jobs[k].status = "pending" => jobs[k].error_message = NoMsg
            /\ jobs[k].status = "processing"
                    => \E w \in Workers :
                            pc[w] = "convert" /\ cur[w] = [gen |-> jobs_gen, idx |-> k])
    /\ [][\A w \in Workers :
            EndsJob(w)
                => (/\ Ended(jobs'[cur[w].idx])
                    /\ jobs'[cur[w].idx].status = "completed" <=> conv[w].success)]_vars

\* C13 happens: a run has ended on its own with one job failed, its error
\* recorded, and the other completed
C13_Witness ==
    /\ NoRunActive
    /\ \E w \in Workers : finished[w].kind = "summary" /\ finished[w].failed = 1
    /\ Len(jobs) = 2
    /\ jobs[1].status = "failed"
    /\ jobs[1].error_message.kind = "all_failed"
    /\ jobs[2].status = "completed"

----------------------------------------------------------------------------
(* Properties of MainConverter.start_conversion *)

\* the file can be converted to the target format: its type is known, it is
\* not in the target format already, and some category has both formats
Convertible(f, target_format) ==
    /\ extension_mapping(Lower(Suffix(f))) # "unknown"
    /\ ~SameFormat(f, target_format)
    /\ \E category \in {"video", "audio", "image", "document"} :
            /\ Lower(Suffix(f)) \in get_supported_formats[category].input
            /\ Lower(target_format) \in get_supported_formats[category].output

\* a set-up that must not start: no file, no destination or one that cannot
\* be created, a file missing from the disk, or no file that can be converted
InvalidSetup(a, present) ==
    \/ a.file_paths = << >>
    \/ a.output_dir \in {"", "unwritable"}
    \/ \E k \in 1..Len(a.file_paths) : a.file_paths[k] \notin present
    \/ \A k \in 1..Len(a.file_paths) : ~Convertible(a.file_paths[k], a.target_format)

\* the worker's call of start_conversion returns
StartReturns(w) == pc[w] = "start" /\ pc'[w] # "start"

\* C14: a set-up that fails validation is refused by start_conversion, and a
\* refused start changes nothing: start_conversion returns False,
\* is_converting stays false, the job list and every job's status are as
\* before, and no engine is called.
C14_InvalidSetupAborts ==
    /\ [](\A w \in Workers : \A present \in Probes :
            (pc[w] = "start" /\ InvalidSetup(args[w], present))
                => ~start_accepted(w, present))
    /\ [][\A w \in Workers :
            /\ (StartReturns(w) /\ InvalidSetup(args[w], Files)) => pc'[w] = "done"
            /\ (StartReturns(w) /\ pc'[w] = "done")
                => (/\ finished'[w].kind = "start_failed"
                    /\ ~finished'[w].success
                    /\ UNCHANGED queue_vars
                    /\ conv' = conv)]_vars

\* C14 happens: a start with no destination directory was refused, nothing
\* is converting and the job list is empty
C14_Witness ==
    \E w \in Workers :
        /\ finished[w].kind = "start_failed"
        /\ args[w].output_dir = ""
        /\ args[w].file_paths # << >>
        /\ ~is_converting
        /\ jobs = << >>
        /\ jobs_gen = 0

\* the convertible files of a list, in its order
RECURSIVE ConvertibleOf(_, _)
ConvertibleOf(file_paths, target_format) ==
    IF file_paths = << >> THEN << >>
    ELSE (IF Convertible(Head(file_paths), target_format)
          THEN <<Head(file_paths)>> ELSE << >>)
         \o ConvertibleOf(Tail(file_paths), target_format)

\* the input paths of the job list
RECURSIVE PathsOf(_)
PathsOf(js) == IF js = << >> THEN << >> ELSE <<Head(js).input_path>> \o PathsOf(Tail(js))

\* C15: when every file of the list exists and at least one can be
\* converted to the target format, start_conversion (called while nothing is
\* converting) succeeds, and the job list of the run is exactly the
\* convertible files, in the order of the list, all pending; files in the
\* target format already, or with no supported conversion, are left out.
C15_ExactlyConvertibleFiles ==
    /\ [](\A w \in Workers :
            (/\ pc[w] = "start"
             /\ ~is_converting
             /\ args[w].output_dir = "out"
             /\ ConvertibleOf(args[w].file_paths, args[w].target_format) # << >>)
                => (/\ start_accepted(w, Files)
                    /\ PathsOf(started_jobs(w, Files))
                            = ConvertibleOf(args[w].file_paths, args[w].target_format)))
    /\ [][\A w \in Workers :
            (StartReturns(w) /\ pc'[w] = "loop")
                => (/\ PathsOf(jobs') = ConvertibleOf(args[w].file_paths, args[w].target_format)
                    /\ \A k \in 1..Len(jobs') :
                            jobs'[k] = ConversionJob(jobs'[k].input_path, args[w].target_format)
                    /\ is_converting'
                    /\ current_job_index' = 0)]_vars

\* C15 happens: a run was started on a list of four files of which one is in
\* the target format already and one has no conversion to it; its job list
\* holds the other two, in order
C15_Witness ==
    \E w \in Workers :
        /\ pc[w] = "loop"
        /\ is_converting
        /\ Len(args[w].file_paths) = 4
        /\ args[w].target_format = "PDF"
        /\ PathsOf(jobs) = <<"a.docx", "b.txt">>

----------------------------------------------------------------------------
(* Properties of the progress reports *)

\* C17: within one job the overall percentages its calls of the progress
\* callback deliver never decrease: not from one report of the job to the
\* next, across its candidates and the hand-over between them, and not from
\* its last report to the update that closes the job.
C17_ProgressNeverDecreases ==
    [][\A w \in Workers :
        pc[w] = "convert"
            => IF pc'[w] = "convert"
               THEN conv'[w].overall >= conv[w].overall
               ELSE overall_progress >= conv[w].overall]_vars

----------------------------------------------------------------------------
(* Properties of the candidate lookup *)

\* the input formats of the files in the window's list
InputFormats == {Lower(Suffix(file_list[k])) : k \in 1..Len(file_list)}

Selected(f) ==
    /\ Entered(f)
    /\ ~(f.pc = "returned"
            /\ f.message.kind \in {"unsupported_input", "unsupported_output", "not_found"})

\* C19: the candidates convert tries do not depend on the case of the
\* letters of the target format: they are those of its lower-case form.
C19_TargetCaseIgnored ==
    \A w \in Workers :
        Selected(conv[w])
            => conv[w].engines = engines_to_try(conv[w].input_ext,
                                                Lower(conv[w].target_format))

\* the place of an engine in the priority order
Priority(e) == CASE e = OnlyOffice -> 1 [] e = LibreOffice -> 2 [] OTHER -> 3

\* C20: for a pair with no entry of its own in the matrix, the candidates of
\* convert hold every engine whose declared formats have the pair, in the
\* order OnlyOffice, LibreOffice, fallback; no such engine is left out.
C20_InferenceListsEverySupporter ==
    \A w \in Workers :
        LET f == conv[w]
        IN  (Selected(f) /\ <<f.input_ext, f.target_format>> \notin ConversionKeys)
            => (/\ \A e \in Engines :
                        can_use(e, f.input_ext, f.target_format)
                            => \E k \in 1..Len(f.engines) : f.engines[k] = e
                /\ \A j, k \in 1..Len(f.engines) :
                        j < k => Priority(f.engines[j]) < Priority(f.engines[k]))

\* the engines of a candidate list
InList(e, engines) == \E k \in 1..Len(engines) : engines[k] = e

\* C21: an office engine that was not available when the DocumentConverter
\* was built, that can answer available now and that supports the pair, is
\* among the candidates of the call.
C21_AvailabilityAtLookup ==
    \A w \in Workers : \A e \in {OnlyOffice, LibreOffice} :
        LET f == conv[w]
        IN  (/\ Selected(f)
             /\ ~InList(e, available_engines)
             /\ TRUE \in is_available(e)
             /\ can_use(e, f.input_ext, f.target_format))
            => InList(e, f.engines)

----------------------------------------------------------------------------
(* DocumentConverter.convert called directly *)

\* the one job of a caller that hands a file and a target format straight to
\* DocumentConverter.convert, with no admission check before the call
DirectJob(input_path, target_format) ==
    [ConversionJob(input_path, target_format) EXCEPT !.status = "processing"]

\* A session whose first worker is at the call of convert for any file of the
\* model and any target format
InitConvert ==
    /\ file_list \in FileLists
    /\ format_text \in Targets
    /\ output_dir = "out"
    /\ lo_executable \in BOOLEAN
    /\ \E oo \in is_available(OnlyOffice) :
            available_engines = AvailableAtConstruction(oo, lo_executable)
    /\ \E input_path \in Files :
        /\ jobs = <<DirectJob(input_path, format_text)>>
        /\ conv = [w \in Workers |->
                        IF w = 1 THEN CalledFrame(input_path, format_text)
                        ELSE IdleFrame]
        /\ args = [w \in Workers |->
                        IF w = 1
                        THEN [file_paths |-> <<input_path>>, output_dir |-> output_dir,
                              target_format |-> format_text]
                        ELSE NoArgs]
    /\ jobs_gen = 1
    /\ current_job_index = 0
    /\ is_converting = TRUE
    /\ pc = [w \in Workers |-> IF w = 1 THEN "convert" ELSE "unused"]
    /\ should_stop = [w \in Workers |-> FALSE]
    /\ cur = [w \in Workers |-> IF w = 1 THEN [gen |-> 1, idx |-> 1] ELSE NoJob]
    /\ finished = [w \in Workers |-> NoSignal]
    /\ handled = [w \in Workers |-> FALSE]
    /\ conversion_worker = 1
    /\ stop_btn = TRUE

SpecConvert == InitConvert /\ [][Next]_vars

\* C22: a call of convert whose input format is its target format returns
\* failure before any candidate is looked up and without calling an engine.
C22_SameFormatRejected ==
    \A w \in Workers :
        LET f == conv[w]
        IN  (f.pc \notin {"idle", "called"} /\ f.input_ext = Lower(f.target_format))
            => (/\ f.pc = "returned"
                /\ ~f.success
                /\ f.engines = << >>
                /\ f.attempts = << >>)

----------------------------------------------------------------------------
(* Properties of the job queue and the worker: ended jobs, ended runs *)

\* C23: a job of the list that is completed or failed keeps its status, its
\* progress and its error message in every later step, as long as the list
\* holds that job object; no step takes it up for processing again.
C23_EndedJobsFrozen ==
    [][\A k \in 1..Len(jobs) :
            (jobs_gen' = jobs_gen /\ Ended(jobs[k]))
                => (k <= Len(jobs') /\ jobs'[k] = jobs[k])]_vars

\* the worker leaves run through lines 191-199 in this step
LeavesRun(w) == pc[w] = "after" /\ pc'[w] = "done"

\* C24: when a worker leaves its run with every job of the list completed or
\* failed, the signal it emits is the summary with the tally of completed and
\* failed jobs, whenever a stop was requested.
C24_AttemptedRunReportsTally ==
    [][\A w \in Workers :
            (/\ LeavesRun(w)
             /\ jobs # << >>
             /\ \A k \in 1..Len(jobs) : Ended(jobs[k]))
                => (/\ finished'[w].kind = "summary"
                    /\ finished'[w].completed = get_conversion_summary.completed
                    /\ finished'[w].failed = get_conversion_summary.failed)]_vars

----------------------------------------------------------------------------
(* Faults on the worker thread: an exception raised by a status or progress *)
(* callback of MainConverter outside the try of process_next_job leaves the *)
(* MainConverter method and is caught by ConversionWorker.run, line 201.    *)

\* a handler that swallows the exception and emits nothing
fatal_signal_not_emitted == NoSignal

\* ConversionWorker.run, lines 201-212: the signal of the except branch
fatal_signal == Signal("fatal", FALSE)

\* start_conversion: the status callback raises, at line 288 (validation
\* failed) or at line 310 (the run has been set up and is_converting is True)
StartFaults(w) ==
    /\ pc[w] = "start"
    /\ ~is_converting
    /\ \E present \in Probes :
        IF ~start_accepted(w, present)
        THEN UNCHANGED queue_vars
        ELSE /\ jobs' = started_jobs(w, present)
             /\ jobs_gen' = jobs_gen + 1
             /\ current_job_index' = 0
             /\ is_converting' = TRUE
    /\ finished' = [finished EXCEPT ![w] = fatal_signal]
    /\ pc' = [pc EXCEPT ![w] = "done"]
    /\ UNCHANGED <<should_stop, args, cur>>
    /\ UNCHANGED <<ui_vars, env_vars, conv>>

\* process_next_job: the status callback of lines 332-334 raises, after the
\* job has been set to processing
ProcessBeginFaults(w) ==
    /\ pc[w] = "process"
    /\ ~nothing_to_process
    /\ jobs' = [jobs EXCEPT ![current_job_index + 1].status = "processing"]
    /\ finished' = [finished EXCEPT ![w] = fatal_signal]
    /\ pc' = [pc EXCEPT ![w] = "done"]
    /\ UNCHANGED <<jobs_gen, current_job_index, is_converting>>
    /\ UNCHANGED <<should_stop, args, cur>>
    /\ UNCHANGED <<ui_vars, env_vars, conv>>

\* process_next_job: the progress callback of lines 399-400 raises, after the
\* job's final status has been written and before the index moves on
ProcessEndFaults(w) ==
    /\ pc[w] = "convert"
    /\ conv[w].pc = "returned"
    /\ jobs' = job_done(jobs, cur[w], conv[w])
    /\ conv' = [conv EXCEPT ![w] = IdleFrame]
    /\ cur' = [cur EXCEPT ![w] = NoJob]
    /\ finished' = [finished EXCEPT ![w] = fatal_signal]
    /\ pc' = [pc EXCEPT ![w] = "done"]
    /\ UNCHANGED <<jobs_gen, current_job_index, is_converting>>
    /\ UNCHANGED <<should_stop, args>>
    /\ UNCHANGED <<ui_vars, env_vars>>

\* finish_conversion: a callback of lines 419-426 raises, after the last job
\* was processed and is_converting was set to False
FinishFaults(w) ==
    /\ pc[w] = "convert"
    /\ conv[w].pc = "returned"
    /\ current_job_index + 1 >= Len(jobs)
    /\ jobs' = job_done(jobs, cur[w], conv[w])
    /\ current_job_index' = current_job_index + 1
    /\ is_converting' = FALSE
    /\ conv' = [conv EXCEPT ![w] = IdleFrame]
    /\ cur' = [cur EXCEPT ![w] = NoJob]
    /\ finished' = [finished EXCEPT ![w] = fatal_signal]
    /\ pc' = [pc EXCEPT ![w] = "done"]
    /\ UNCHANGED jobs_gen
    /\ UNCHANGED <<should_stop, args>>
    /\ UNCHANGED <<ui_vars, env_vars>>

\* stop_conversion, called at line 192: a callback of lines 432-435 raises,
\* after is_converting was set to False
StopFaults(w) ==
    /\ pc[w] = "after"
    /\ should_stop[w]
    /\ is_converting
    /\ is_converting' = FALSE
    /\ finished' = [finished EXCEPT ![w] = fatal_signal]
    /\ pc' = [pc EXCEPT ![w] = "done"]
    /\ UNCHANGED <<jobs, jobs_gen, current_job_index>>
    /\ UNCHANGED <<should_stop, args, cur>>
    /\ UNCHANGED <<ui_vars, env_vars, conv>>

\* an exception reaches the except branch of ConversionWorker.run
Faults(w) ==
    \/ StartFaults(w)
    \/ ProcessBeginFaults(w)
    \/ ProcessEndFaults(w)
    \/ FinishFaults(w)
    \/ StopFaults(w)

\* A session with two documents for the library fallback, in which the
\* callbacks of MainConverter may raise
InitFault ==
    /\ Init
    /\ file_list = <<"a.docx", "c.PDF">>
    /\ format_text = "txt"
    /\ output_dir = "out"

NextFault ==
    \/ Next
    \/ \E w \in Workers : StartFaults(w)
    \/ \E w \in Workers : ProcessBeginFaults(w)
    \/ \E w \in Workers : ProcessEndFaults(w)
    \/ \E w \in Workers : FinishFaults(w)
    \/ \E w \in Workers : StopFaults(w)

SpecFault == InitFault /\ [][NextFault]_vars

\* C25: an exception that reaches the except branch of ConversionWorker.run
\* ends the run with one conversion_finished(False, message): the worker had
\* emitted no signal before, it emits the fatal one and is done, and a worker
\* that is done emits nothing more; its signal stays until the window has
\* handled it.
C25_FaultReportedOnce ==
    [][\A w \in Workers :
            /\ Faults(w)
                => (/\ finished[w] = NoSignal
                    /\ finished'[w].kind = "fatal"
                    /\ ~finished'[w].success
                    /\ pc'[w] = "done")
            /\ pc[w] = "done"
                => (/\ pc'[w] = "done"
                    /\ finished'[w] \in {finished[w], NoSignal}
                    /\ finished'[w] # finished[w] => handled'[w])]_vars

\* C25 happens: a worker is done after a fault and its signal is waiting
C25_Witness ==
    \E w \in Workers :
        /\ pc[w] = "done"
        /\ finished[w].kind = "fatal"
        /\ ~handled[w]

\* C27: when every worker that was created has returned from run (or has not
\* yet called start_conversion), no run is active: is_converting is false and
\* the next start_conversion is not turned down as already running.
C27_ReturnedRunInactive ==
    NoRunActive => ~is_converting

\* the workers inside a run other than w
OtherRunning(w) == {v \in Workers \ {w} : pc[v] \in {"loop", "process", "convert"}}

\* C28: the stop_conversion call a stopped worker makes on its way out of run
\* leaves is_converting as it is while another worker is inside a run.
C28_StopOnlyOwnRun ==
    [][\A w \in Workers :
            (LeavesRun(w) /\ should_stop[w] /\ OtherRunning(w) # {})
                => is_converting' = is_converting]_vars

\* the worker takes up a job in this step: process_next_job, lines 327-328
TakesUp(w) == pc[w] = "process" /\ pc'[w] = "convert"

\* C26: every started run comes to its end because a call of convert makes at
\* most one engine call per candidate and process_next_job is executed at
\* most once per job: the job a worker takes up is a pending one, that no
\* call of process_next_job has had before.
C26_EachJobProcessedOnce ==
    [][\A w \in Workers :
            /\ Len(conv'[w].attempts) <= Len(conv'[w].engines)
            /\ TakesUp(w) => jobs[current_job_index + 1].status = "pending"]_vars

----------------------------------------------------------------------------
(* Admission and processing of jobs of every file type *)

\* target formats of a caller that also converts media: those of Targets,
\* and a video format (VideoConverter's output formats are lower-case tokens)
MediaTargets == Targets \cup {"avi"}

\* start_conversion called for any file list of the model, the video file
\* included, and any of these formats
InitMedia ==
    /\ file_list \in DirectLists
    /\ format_text \in MediaTargets
    /\ output_dir = "out"
    /\ lo_executable = FALSE
    /\ available_engines = << >>
    /\ jobs = << >>
    /\ jobs_gen = 0
    /\ current_job_index = 0
    /\ is_converting = FALSE
    /\ pc = [w \in Workers |-> IF w = 1 THEN "start" ELSE "unused"]
    /\ should_stop = [w \in Workers |-> FALSE]
    /\ args = [w \in Workers |->
                    IF w = 1
                    THEN [file_paths |-> file_list, output_dir |-> output_dir,
                          target_format |-> format_text]
                    ELSE NoArgs]
    /\ cur = [w \in Workers |-> NoJob]
    /\ finished = [w \in Workers |-> NoSignal]
    /\ handled = [w \in Workers |-> FALSE]
    /\ conversion_worker = 1
    /\ stop_btn = TRUE
    /\ conv = [w \in Workers |-> IdleFrame]

SpecMedia == InitMedia /\ [][Next]_vars

\* C29: a job that add_conversion_job accepted and that process_next_job has
\* taken up is handed to its converter's convert: the call was made for the
\* job's file, it did not fail at the checks before it.
C29_AcceptedJobsReachConvert ==
    \A w \in Workers :
        pc[w] = "convert"
            => (/\ conv[w].pc \in {"called", "try", "engine", "returned"}
                /\ cur[w].gen = jobs_gen => conv[w].input_path = jobs[cur[w].idx].input_path)

----------------------------------------------------------------------------
(* get_conversion_strategy against convert *)

\* C30: the engines convert tries for a pair are those get_conversion_strategy
\* lists for it, in the same order, whatever was available at construction.
C30_StrategyIsWhatConvertTries ==
    \A w \in Workers :
        Selected(conv[w])
            => conv[w].engines = get_conversion_strategy(conv[w].input_ext,
                                                         conv[w].target_format)

============================================================================
